---- MODULE Spec2Model ----
(***************************************************************************)
(* Model of the Art Venture nodes of modules/nodes.py: the parameter-pipe  *)
(* nodes, the image muxer, the upload sink and the image loader.           *)
(*                                                                         *)
(* Python values are tagged tuples: Str(s) is the string s, Null is None,  *)
(* Ref(id) is a reference to the dict object id of the heap, Img(x) and    *)
(* Msk(x) are tensors.  Omitted marks an optional argument the caller did  *)
(* not pass, so that the default of the signature applies.                 *)
(***************************************************************************)
EXTENDS Integers, Sequences, FiniteSets, TLC

VARIABLES heap, calls, mux, upload, load, tempdir

vars == <<heap, calls, mux, upload, load, tempdir>>
pipeVars == <<heap, calls>>

\* ------------------------------------------------------------------ bounds
MaxCalls == 3
MaxSelector == 6
MaxImages == 3
MaxWidth == 2
MaxTempFiles == 1

\* ------------------------------------------------------------ Python values
Null == <<"null">>
Omitted == <<"omitted">>
Str(s) == <<"str", s>>
Ref(id) == <<"ref", id>>
Img(x) == <<"img", x>>
Msk(x) == <<"msk", x>>

\* a store that rebuilds the dict from the one key
DictSetDropsOthers(d, k, v) == [x \in {k} |-> v]

\* d[k] = v on a dict d
DictSet(d, k, v) == [x \in (DOMAIN d) \cup {k} |-> IF x = k THEN v ELSE d[x]]

\* d.get(k, default)
DictGet(d, k, default) == IF k \in DOMAIN d THEN d[k] ELSE default

EmptyDict == [x \in {} |-> Null]

\* the value of an optional parameter: the argument, or the signature's default
Arg(a, default) == IF a = Omitted THEN default ELSE a

\* --------------------------------------------------------------- the pipes
CkptKeys == <<"ckpt_name", "secondary_ckpt_name", "vae_name", "upscaler_name",
              "secondary_upscaler_name", "lora_1_name", "lora_2_name", "lora_3_name">>

PromptKeys == <<"positive", "negative", "image", "mask">>

SeqRange(s) == {s[i] : i \in 1..Len(s)}

\* the dict objects created once, when the four methods are defined
\* (the `pipe: Dict = {}` defaults), and the dict a caller may build itself
DefaultPipe == [ckpt_to_pipe |-> "default:checkpoint_models_to_parameter_pipe",
                prompt_to_pipe |-> "default:prompt_to_parameter_pipe",
                pipe_to_ckpt |-> "default:parameter_pipe_to_checkpoint_models",
                pipe_to_prompt |-> "default:parameter_pipe_to_prompt"]

DefaultPipeIds == {DefaultPipe[op] : op \in DOMAIN DefaultPipe}

CallerPipeId == "caller:dict"

\* the sentinel stored as given
SentinelKept(x) == x

\* x if x != "None" else None
SentinelToNone(x) == IF x # Str("None") THEN x ELSE Null

\* the pipe object a call works on
PipeOf(op, pipe) == IF pipe = Omitted THEN DefaultPipe[op] ELSE pipe[2]

RECURSIVE StoreNames(_, _, _)
\* the eight assignments of checkpoint_models_to_parameter_pipe, in order
StoreNames(d, names, i) ==
    IF i > Len(CkptKeys) THEN d
    ELSE StoreNames(DictSet(d, CkptKeys[i], SentinelToNone(names[i])), names, i + 1)

\* the body of checkpoint_models_to_parameter_pipe on the dict d;
\* a[1] is ckpt_name (required), a[2..8] the optional names
CkptStore(d, a) ==
    StoreNames(d, [i \in 1..8 |-> IF i = 1 THEN a[1] ELSE Arg(a[i], Str("None"))], 1)

\* image and mask stored only when supplied
PromptStoreKeepsTensors(d, a) ==
    LET d1 == DictSet(d, "positive", a[1])
        d2 == DictSet(d1, "negative", a[2])
        d3 == IF a[3] = Omitted THEN d2 ELSE DictSet(d2, "image", a[3])
    IN  IF a[4] = Omitted THEN d3 ELSE DictSet(d3, "mask", a[4])

\* the body of prompt_to_parameter_pipe on the dict d; a = <<positive, negative, image, mask>>
PromptStore(d, a) ==
    LET d1 == DictSet(d, "positive", a[1])
        d2 == DictSet(d1, "negative", a[2])
        d3 == DictSet(d2, "image", Arg(a[3], Null))
    IN  DictSet(d3, "mask", Arg(a[4], Null))

\* the tuple parameter_pipe_to_checkpoint_models returns for the dict d
CkptRead(ref, d) == <<ref>> \o [i \in 1..8 |-> DictGet(d, CkptKeys[i], Null)]

\* the tuple parameter_pipe_to_prompt returns for the dict d
PromptRead(ref, d) == <<ref>> \o [i \in 1..4 |-> DictGet(d, PromptKeys[i], Null)]

Called(op, a, pipe, out) ==
    /\ calls' = Append(calls, [op |-> op, args |-> a, pipe |-> pipe, out |-> out])
    /\ UNCHANGED <<mux, upload, load, tempdir>>

checkpoint_models_to_parameter_pipe(a, pipe) ==
    LET p == PipeOf("ckpt_to_pipe", pipe) IN
    /\ Len(calls) < MaxCalls
    /\ p \in DOMAIN heap
    /\ heap' = [heap EXCEPT ![p] = CkptStore(heap[p], a)]
    /\ Called("ckpt_to_pipe", a, pipe, <<Ref(p)>>)

prompt_to_parameter_pipe(a, pipe) ==
    LET p == PipeOf("prompt_to_pipe", pipe) IN
    /\ Len(calls) < MaxCalls
    /\ p \in DOMAIN heap
    /\ heap' = [heap EXCEPT ![p] = PromptStore(heap[p], a)]
    /\ Called("prompt_to_pipe", a, pipe, <<Ref(p)>>)

parameter_pipe_to_checkpoint_models(pipe) ==
    LET p == PipeOf("pipe_to_ckpt", pipe) IN
    /\ Len(calls) < MaxCalls
    /\ p \in DOMAIN heap
    /\ Called("pipe_to_ckpt", <<>>, pipe, CkptRead(Ref(p), heap[p]))
    /\ UNCHANGED heap

parameter_pipe_to_prompt(pipe) ==
    LET p == PipeOf("pipe_to_prompt", pipe) IN
    /\ Len(calls) < MaxCalls
    /\ p \in DOMAIN heap
    /\ Called("pipe_to_prompt", <<>>, pipe, PromptRead(Ref(p), heap[p]))
    /\ UNCHANGED heap

\* the caller builds a dict of its own, with keys no node owns
CallerDicts == {EmptyDict, [x \in {"seed"} |-> Str("42")]}

NewPipe ==
    /\ CallerPipeId \notin DOMAIN heap
    /\ \E d \in CallerDicts :
          heap' = [x \in (DOMAIN heap) \cup {CallerPipeId} |-> IF x = CallerPipeId THEN d ELSE heap[x]]
    /\ UNCHANGED <<calls, mux, upload, load, tempdir>>

\* the pipes a caller can pass: its own dict, and every pipe a node returned
KnownPipes == {Ref(p) : p \in (DOMAIN heap) \ DefaultPipeIds} \cup {c.out[1] : c \in SeqRange(calls)}

PipeArgs == {Omitted} \cup KnownPipes

\* the argument vectors of the pipe specification
PipeCkptArgs ==
    { <<Str("a.ckpt"), Omitted, Omitted, Omitted, Omitted, Omitted, Omitted, Omitted>>,
      <<Str("b.ckpt"), Str("b2.ckpt"), Str("b.vae"), Str("b.up"), Str("b2.up"), Str("b1.lora"), Str("b2.lora"), Str("b3.lora")>>,
      <<Str("None"), Str("None"), Str("c.vae"), Omitted, Str("None"), Str("c1.lora"), Omitted, Str("None")>> }

PromptArgs ==
    { <<pn[1], pn[2], i, m>> : pn \in { <<Str("pos"), Str("neg")>>, <<Str("Positive"), Str("Negative")>> },
                                i \in {Omitted, Img("i1")}, m \in {Omitted, Msk("m1")} }

NotCalled == [called |-> FALSE]

Init ==
    /\ heap = [p \in DefaultPipeIds |-> EmptyDict]
    /\ calls = <<>>
    /\ mux = NotCalled
    /\ upload = NotCalled
    /\ load = NotCalled
    /\ tempdir = {}

CkptToPipe == \E a \in PipeCkptArgs, pipe \in PipeArgs : checkpoint_models_to_parameter_pipe(a, pipe)
PromptToPipe == \E a \in PromptArgs, pipe \in PipeArgs : prompt_to_parameter_pipe(a, pipe)
PipeToCkpt == \E pipe \in PipeArgs : parameter_pipe_to_checkpoint_models(pipe)
PipeToPrompt == \E pipe \in PipeArgs : parameter_pipe_to_prompt(pipe)

NextPipe == CkptToPipe \/ PromptToPipe \/ PipeToCkpt \/ PipeToPrompt \/ NewPipe

SpecPipe == Init /\ [][NextPipe]_vars

\* every combination of the eight name arguments
AllCkptArgs ==
    { <<a1, a2, a3, a4, a5, a6, a7, a8>> :
        a1 \in {Str("None"), Str("a.ckpt")},
        a2 \in {Omitted, Str("None"), Str("a2.ckpt")},
        a3 \in {Omitted, Str("None"), Str("a.vae")},
        a4 \in {Omitted, Str("None"), Str("a.up")},
        a5 \in {Omitted, Str("None"), Str("a2.up")},
        a6 \in {Omitted, Str("None"), Str("a1.lora")},
        a7 \in {Omitted, Str("None"), Str("a2.lora")},
        a8 \in {Omitted, Str("None"), Str("a3.lora")} }

\* the first node of a process is the checkpoint node, with any arguments
CkptToPipeFirst ==
    /\ calls = <<>>
    /\ \E a \in AllCkptArgs, pipe \in PipeArgs : checkpoint_models_to_parameter_pipe(a, pipe)

NextCkpt == CkptToPipeFirst \/ PipeToCkpt \/ NewPipe

SpecCkpt == Init /\ [][NextCkpt]_vars

\* ------------------------------------------------------- claims on the pipes
CkptKeySet == SeqRange(CkptKeys)
PromptKeySet == SeqRange(PromptKeys)

OwnedKeys(op) ==
    IF op = "ckpt_to_pipe" THEN CkptKeySet
    ELSE IF op = "prompt_to_pipe" THEN PromptKeySet ELSE {}

IsToPipe(c) == c.op \in {"ckpt_to_pipe", "prompt_to_pipe"}

ReaderOf(op) == IF op = "ckpt_to_pipe" THEN "pipe_to_ckpt" ELSE "pipe_to_prompt"

NCalls == Len(calls)
LastCall == calls[Len(calls)]

\* the dict a returned pipe refers to
Deref(ref) == heap[ref[2]]

\* what the arguments of a to-pipe call ask the pipe to hold
ExpectCkpt(a) == [i \in 1..8 |-> IF a[i] = Omitted \/ a[i] = Str("None") THEN Null ELSE a[i]]
ExpectPrompt(a) == <<a[1], a[2], IF a[3] = Omitted THEN Null ELSE a[3], IF a[4] = Omitted THEN Null ELSE a[4]>>
Expect(c) == IF c.op = "ckpt_to_pipe" THEN ExpectCkpt(c.args) ELSE ExpectPrompt(c.args)

KeysOf(op) == IF op = "ckpt_to_pipe" THEN CkptKeys ELSE PromptKeys

\* C1: a to-pipe call changes only the keys its node owns: every key that was
\* in a pipe before the call and is not owned by the node is still there with
\* the same value, and every key the call adds is one the node owns.
C1_FrameOwnedKeys ==
    [][ (Len(calls') = Len(calls) + 1 /\ IsToPipe(calls'[Len(calls')])) =>
          LET owned == OwnedKeys(calls'[Len(calls')].op) IN
          \A p \in DOMAIN heap :
             /\ p \in DOMAIN heap'
             /\ \A k \in (DOMAIN heap[p]) \ owned : k \in DOMAIN heap'[p] /\ heap'[p][k] = heap[p][k]
             /\ (DOMAIN heap'[p]) \subseteq (DOMAIN heap[p]) \cup owned ]_vars

\* the checkpoint node has written into a pipe that held a caller's key and the prompts
C1_Witness ==
    /\ NCalls >= 2
    /\ LastCall.op = "ckpt_to_pipe"
    /\ {"seed", "positive", "image"} \subseteq DOMAIN Deref(LastCall.out[1])
    /\ Deref(LastCall.out[1])["seed"] = Str("42")
    /\ Deref(LastCall.out[1])["positive"] = Str("pos")
    /\ Deref(LastCall.out[1])["ckpt_name"] = Str("b.ckpt")

\* C2: a to-pipe call that is given no input pipe returns a pipe whose keys are
\* exactly the keys the node owns, with the values its arguments determine.
C2_NoPipeReturnsFreshPipe ==
    (NCalls >= 1 /\ IsToPipe(LastCall) /\ LastCall.pipe = Omitted) =>
        /\ DOMAIN Deref(LastCall.out[1]) = OwnedKeys(LastCall.op)
        /\ \A i \in 1..Len(KeysOf(LastCall.op)) :
              Deref(LastCall.out[1])[KeysOf(LastCall.op)[i]] = Expect(LastCall)[i]

\* C3: after two calls of the same to-pipe node, both without an input pipe, a
\* from-pipe node reading the pipe the first call returned gets the values of
\* the first call.
C3_NoPipeCallsIndependent ==
    (/\ NCalls >= 3
     /\ IsToPipe(calls[NCalls - 2])
     /\ calls[NCalls - 1].op = calls[NCalls - 2].op
     /\ calls[NCalls - 2].pipe = Omitted
     /\ calls[NCalls - 1].pipe = Omitted
     /\ LastCall.op = ReaderOf(calls[NCalls - 2].op)
     /\ LastCall.pipe = calls[NCalls - 2].out[1]) =>
        Tail(LastCall.out) = Expect(calls[NCalls - 2])

\* C4: checkpoint round trip: reading the pipe the checkpoint node returned
\* yields, in the fixed order, the given name for every argument that is not
\* the sentinel "None" and null for every argument that is the sentinel or was
\* omitted; a key that is not in the pipe reads as null.
C4_CkptRoundTrip ==
    /\ (/\ NCalls >= 2
        /\ calls[NCalls - 1].op = "ckpt_to_pipe"
        /\ LastCall.op = "pipe_to_ckpt"
        /\ LastCall.pipe = calls[NCalls - 1].out[1]) =>
           LastCall.out = <<calls[NCalls - 1].out[1]>> \o ExpectCkpt(calls[NCalls - 1].args)
    /\ (NCalls >= 1 /\ LastCall.op = "pipe_to_ckpt") =>
           \A i \in 1..8 : CkptKeys[i] \notin DOMAIN Deref(LastCall.out[1]) => LastCall.out[i + 1] = Null

\* a round trip with a sentinel, an omitted and a given name
C4_Witness ==
    /\ NCalls = 2
    /\ calls[1].op = "ckpt_to_pipe"
    /\ calls[1].args[1] = Str("None")
    /\ calls[1].args[3] = Omitted
    /\ calls[1].args[4] = Str("None")
    /\ calls[1].args[6] = Str("a1.lora")
    /\ calls[2].op = "pipe_to_ckpt"
    /\ calls[2].pipe = calls[1].out[1]
    /\ calls[2].out[2] = Null /\ calls[2].out[4] = Null /\ calls[2].out[5] = Null
    /\ calls[2].out[7] = Str("a1.lora")

\* C5: prompt round trip: reading the pipe the prompt node returned yields the
\* positive and negative given and the image and mask given, null for an image
\* or mask that was not supplied, whatever the pipe held before.
C5_PromptRoundTrip ==
    (/\ NCalls >= 2
     /\ calls[NCalls - 1].op = "prompt_to_pipe"
     /\ LastCall.op = "pipe_to_prompt"
     /\ LastCall.pipe = calls[NCalls - 1].out[1]) =>
        LastCall.out = <<calls[NCalls - 1].out[1]>> \o ExpectPrompt(calls[NCalls - 1].args)

\* the pipe held an image and a mask, and the second prompt call supplied neither
C5_Witness ==
    /\ NCalls = 3
    /\ calls[1].op = "prompt_to_pipe" /\ calls[1].args[3] = Img("i1") /\ calls[1].args[4] = Msk("m1")
    /\ calls[2].op = "prompt_to_pipe" /\ calls[2].args[3] = Omitted /\ calls[2].args[4] = Omitted
    /\ calls[2].pipe = calls[1].out[1]
    /\ calls[3].op = "pipe_to_prompt" /\ calls[3].pipe = calls[2].out[1]
    /\ calls[3].out[2] = calls[2].args[1]
    /\ calls[3].out[4] = Null /\ calls[3].out[5] = Null

\* ------------------------------------------------------------ the image mux
Return(v) == <<"return", v>>
Raise(e) == <<"raise", e>>

\* an unset slot raises
ListGetItemRaisesOnNone(list, i) ==
    LET j == IF i < 0 THEN i + Len(list) ELSE i IN
    IF j < 0 \/ j >= Len(list) \/ list[j + 1] = Null THEN Raise("IndexError") ELSE Return(list[j + 1])

\* list[i] of Python: a negative index counts from the end
ListGetItem(list, i) ==
    LET j == IF i < 0 THEN i + Len(list) ELSE i IN
    IF j < 0 \/ j >= Len(list) THEN Raise("IndexError") ELSE Return(list[j + 1])

\* a = <<image_1, image_2, input_selector, image_3, image_4>>
image_muxer(a) ==
    LET images == <<a[1], a[2], Arg(a[4], Null), Arg(a[5], Null)>>
        item == ListGetItem(images, a[3])
    IN  /\ mux' = [called |-> TRUE, args |-> a,
                   outcome |-> IF item[1] = "raise" THEN item ELSE Return(<<item[2]>>)]
        /\ UNCHANGED <<heap, calls, upload, load, tempdir>>

Selectors == (0 - MaxSelector)..MaxSelector

MuxArgs ==
    { <<i1, i2, k, i3, i4>> : i1 \in {Img("a"), Img("b")}, i2 \in {Img("b"), Img("c")}, k \in Selectors,
                              i3 \in {Omitted, Img("d")}, i4 \in {Omitted, Img("e")} }

ImageMuxer == \E a \in MuxArgs : image_muxer(a)

NextMux == ImageMuxer

SpecMux == Init /\ [][NextMux]_vars

\* C6: for a selector k in 0..3 the muxer returns the k-th of image_1, image_2,
\* image_3, image_4 unchanged, and null, without an error, when that is an
\* optional image that was not supplied.
C6_MuxSelects ==
    (mux.called /\ mux.args[3] \in 0..3) =>
        mux.outcome = Return(<< CASE mux.args[3] = 0 -> mux.args[1]
                                  [] mux.args[3] = 1 -> mux.args[2]
                                  [] mux.args[3] = 2 -> (IF mux.args[4] = Omitted THEN Null ELSE mux.args[4])
                                  [] mux.args[3] = 3 -> (IF mux.args[5] = Omitted THEN Null ELSE mux.args[5]) >>)

\* selector 3 with image_4 not supplied, image_3 supplied
C6_Witness ==
    /\ mux.called
    /\ mux.args[3] = 3
    /\ mux.args[4] = Img("d")
    /\ mux.args[5] = Omitted
    /\ mux.outcome = Return(<<Null>>)

\* C7: for every selector outside 0..3, negative ones included, the muxer
\* fails with an index error and returns no image.
C7_MuxOutOfBounds ==
    (mux.called /\ mux.args[3] \notin 0..3) => mux.outcome = Raise("IndexError")

\* ----------------------------------------------------------- the upload sink
\* A float sample is an integer number of 1/510, so that 255.0 * x is a whole
\* or a half number; a uint8 sample is an integer of 0..255.

\* np.clip(255.0 * x, 0, 255).astype(np.uint8), on a sample x = n/510
ToUint8(n) == IF n <= 0 THEN 0 ELSE IF n >= 510 THEN 255 ELSE n \div 2

\* json.dumps(v)
JsonDumps(v) == <<"json", v>>

\* the text chunks of the PngInfo built for each image
PngInfoOf(prompt, extra_pnginfo) ==
    (IF Arg(prompt, Null) # Null THEN << <<"prompt", JsonDumps(prompt)>> >> ELSE <<>>)
    \o (IF Arg(extra_pnginfo, Null) # Null
        THEN [i \in 1..Len(extra_pnginfo[2]) |-> <<extra_pnginfo[2][i][1], JsonDumps(extra_pnginfo[2][i][2])>>]
        ELSE <<>>)

\* the buffer img.save(buffer, format="PNG", pnginfo=metadata) fills
PngBuffer(image, metadata) ==
    [format |-> "PNG", pixels |-> [j \in 1..Len(image[2]) |-> ToUint8(image[2][j])], text |-> metadata]

\* the files numbered from one
FileNameFromOne(idx) == "image-" \o ToString(idx + 1) \o ".png"

\* f"image-{idx}.png"
FileName(idx) == "image-" \o ToString(idx) \o ".png"

RECURSIVE AppendFiles(_, _, _, _)
\* the loop over enumerate(images); idx counts from 0
AppendFiles(files, images, idx, metadata) ==
    IF idx >= Len(images) THEN files
    ELSE AppendFiles(Append(files, <<"files", <<FileName(idx), PngBuffer(images[idx + 1], metadata), "image/png">>>>),
                     images, idx + 1, metadata)

AdditionalData(folder_id) ==
    LET additional_data == DictSet(EmptyDict, "success", Str("true")) IN
    IF Arg(folder_id, Null) # Null THEN DictSet(additional_data, "folderId", folder_id) ELSE additional_data

\* a = <<images, folder_id, prompt, extra_pnginfo>>; uploaded tells whether
\* upload_to_av returned or raised
upload_images(a, uploaded) ==
    LET files == AppendFiles(<<>>, a[1], 0, PngInfoOf(a[3], a[4])) IN
    /\ upload' = [called |-> TRUE, args |-> a,
                  posts |-> << [files |-> files, additional_data |-> AdditionalData(a[2])] >>,
                  outcome |-> IF uploaded THEN Return(<<Str("Uploaded to ArtVenture!")>>) ELSE Raise("UploadError")]
    /\ UNCHANGED <<heap, calls, mux, load, tempdir>>

\* two image tensors, one with samples outside [0, 1]
UploadImagePool == { Img(<<0, 255, 510>>), Img(<<-10, 300, 600>>) }

RECURSIVE SeqsUpTo(_, _)
SeqsUpTo(S, n) ==
    IF n = 0 THEN {<<>>}
    ELSE LET shorter == SeqsUpTo(S, n - 1) IN
         shorter \cup {Append(q, x) : q \in {r \in shorter : Len(r) = n - 1}, x \in S}

UploadArgs ==
    { <<images, folder_id, prompt, extra>> :
        images \in SeqsUpTo(UploadImagePool, MaxImages),
        folder_id \in {Omitted, Null, Str("f1"), Str("")},
        prompt \in {Omitted, <<"obj", "graph">>},
        extra \in {Omitted, <<"map", << <<"workflow", "w">>, <<"seed", "7">> >> >>} }

UploadImages == \E a \in UploadArgs, uploaded \in BOOLEAN : upload_images(a, uploaded)

NextUpload == UploadImages

SpecUpload == Init /\ [][NextUpload]_vars

\* the names the entries of a batch carry, by position
BatchNames == <<"image-0.png", "image-1.png", "image-2.png", "image-3.png", "image-4.png", "image-5.png">>

\* the bytes of the two tensors of the pool
BatchPixels(image) == IF image = Img(<<0, 255, 510>>) THEN <<0, 127, 255>> ELSE <<0, 150, 255>>

\* C8: for n images the one upload call gets exactly n file entries in input
\* order, the i-th (from 0) being field files, name image-{i}.png, type
\* image/png, and additional fields with success="true" always and folderId,
\* equal to the folder id, exactly when a folder id was supplied.
C8_UploadBatchShape ==
    upload.called =>
        /\ Len(upload.posts) = 1
        /\ Len(upload.posts[1].files) = Len(upload.args[1])
        /\ \A i \in 1..Len(upload.args[1]) :
              /\ upload.posts[1].files[i][1] = "files"
              /\ upload.posts[1].files[i][2][1] = BatchNames[i]
              /\ upload.posts[1].files[i][2][3] = "image/png"
              /\ upload.posts[1].files[i][2][2].pixels = BatchPixels(upload.args[1][i])
        /\ "success" \in DOMAIN upload.posts[1].additional_data
        /\ upload.posts[1].additional_data["success"] = Str("true")
        /\ ("folderId" \in DOMAIN upload.posts[1].additional_data) <=> (upload.args[2] \notin {Omitted, Null})
        /\ ("folderId" \in DOMAIN upload.posts[1].additional_data) =>
              upload.posts[1].additional_data["folderId"] = upload.args[2]
        /\ DOMAIN upload.posts[1].additional_data \subseteq {"success", "folderId"}

\* two different images and a folder id
C8_Witness ==
    /\ upload.called
    /\ upload.args[1] = <<Img(<<-10, 300, 600>>), Img(<<0, 255, 510>>)>>
    /\ upload.args[2] = Str("f1")
    /\ upload.posts[1].files[2][2][1] = "image-1.png"
    /\ upload.posts[1].files[2][2][2].pixels = <<0, 127, 255>>
    /\ upload.posts[1].additional_data["folderId"] = Str("f1")

\* ---------------------------------------------------------- the image loader
\* A PIL image is [mode, w, h, px, exif]: px maps <<x, y>> (from 0) to the
\* tuple of band values of the pixel, exif is the EXIF orientation tag.
\* A float is a fraction <<numerator, denominator>>.

Timeout == 5
MaskSide == 64

Bands(mode) ==
    CASE mode = "RGB" -> <<"R", "G", "B">>
      [] mode = "RGBA" -> <<"R", "G", "B", "A">>
      [] mode = "L" -> <<"L">>
      [] mode = "LA" -> <<"L", "A">>
      [] mode = "P" -> <<"P">>

HasBand(mode, b) == \E k \in 1..Len(Bands(mode)) : Bands(mode)[k] = b

BandIndex(mode, b) == CHOOSE k \in 1..Len(Bands(mode)) : Bands(mode)[k] = b

Palette(idx) == <<10 + idx, 20 + idx, 30 + idx>>

Pixels(w, h) == (0..(w - 1)) \X (0..(h - 1))

\* ImageOps.exif_transpose(i): the image turned as its orientation tag asks,
\* the tag removed
ExifTranspose(i) ==
    LET swap == i.exif \in 5..8
        w == IF swap THEN i.h ELSE i.w
        h == IF swap THEN i.w ELSE i.h
        from(x, y) == CASE i.exif = 1 -> <<x, y>>
                        [] i.exif = 2 -> <<i.w - 1 - x, y>>
                        [] i.exif = 3 -> <<i.w - 1 - x, i.h - 1 - y>>
                        [] i.exif = 4 -> <<x, i.h - 1 - y>>
                        [] i.exif = 5 -> <<y, x>>
                        [] i.exif = 6 -> <<y, i.h - 1 - x>>
                        [] i.exif = 7 -> <<i.w - 1 - y, i.h - 1 - x>>
                        [] i.exif = 8 -> <<i.w - 1 - y, x>>
    IN  [mode |-> i.mode, w |-> w, h |-> h, exif |-> 1,
         px |-> [xy \in Pixels(w, h) |-> i.px[from(xy[1], xy[2])]]]

\* i.convert("RGB")
ConvertRGB(i) ==
    LET rgb(v) == CASE i.mode = "RGB" -> v
                    [] i.mode = "RGBA" -> <<v[1], v[2], v[3]>>
                    [] i.mode = "L" -> <<v[1], v[1], v[1]>>
                    [] i.mode = "LA" -> <<v[1], v[1], v[1]>>
                    [] i.mode = "P" -> Palette(v[1])
    IN  [i EXCEPT !.mode = "RGB", !.px = [xy \in DOMAIN i.px |-> rgb(i.px[xy])]]

\* i.getchannel(b)
GetChannel(i, b) == [i EXCEPT !.mode = "L", !.px = [xy \in DOMAIN i.px |-> <<i.px[xy][BandIndex(i.mode, b)]>>]]

\* np.array(image).astype(np.float32) / 255.0: shape (h, w) for one band,
\* (h, w, bands) otherwise; data maps <<row, column>> (from 0) to the samples
ToFloatArray(i) ==
    [shape |-> IF Len(Bands(i.mode)) = 1 THEN <<i.h, i.w>> ELSE <<i.h, i.w, Len(Bands(i.mode))>>,
     data |-> [rc \in (0..(i.h - 1)) \X (0..(i.w - 1)) |->
                 [k \in 1..Len(Bands(i.mode)) |-> <<i.px[<<rc[2], rc[1]>>][k], 255>>]]]

\* torch.from_numpy(image)[None,]
AddBatchAxis(t) == [t EXCEPT !.shape = <<1>> \o t.shape]

\* the alpha taken as the mask
AlphaNotInverted(t) == t

\* 1.0 - t
OneMinus(t) == [t EXCEPT !.data = [rc \in DOMAIN t.data |-> [k \in 1..Len(t.data[rc]) |-> <<t.data[rc][k][2] - t.data[rc][k][1], t.data[rc][k][2]>>]]]

\* torch.zeros((64, 64))
Zeros(rows, cols) ==
    [shape |-> <<rows, cols>>, data |-> [rc \in (0..(rows - 1)) \X (0..(cols - 1)) |-> << <<0, 1>> >>]]

\* f"{counter:05}"
Pad5(n) ==
    IF n < 10 THEN "0000" \o ToString(n)
    ELSE IF n < 100 THEN "000" \o ToString(n)
    ELSE IF n < 1000 THEN "00" \o ToString(n)
    ELSE IF n < 10000 THEN "0" \o ToString(n) ELSE ToString(n)

\* a URL is [head, parts]: the parts are the text after the head, cut at the commas
StartsWithDataImage(url) == url.head = "data:image/"

\* base64.b64decode of url.split(",")[1]
DecodeDataUri(url) ==
    IF Len(url.parts) < 2 THEN Raise("IndexError")
    ELSE IF url.parts[2][1] = "b64" THEN Return(url.parts[2][2]) ELSE Raise("binascii.Error")

\* every status passes
StatusNeverFails(status) == FALSE

\* response.status_code != 200
StatusFails(status) == status # 200

\* requests.get(url, timeout=5) and the status check; net is what the network
\* answers: <<"response", status, content>> or <<"exception">>
HttpGet(net) ==
    IF net[1] = "exception" THEN Raise("RequestException")
    ELSE IF StatusFails(net[2]) THEN Raise("Exception")
    ELSE Return(net[3])

\* Image.open(io.BytesIO(bytes))
ImageOpen(bytes) == IF bytes[1] = "png" THEN Return(bytes[2]) ELSE Raise("UnidentifiedImageError")

load_image_from_url(url, keep_alpha_channel, net) ==
    LET data == StartsWithDataImage(url)
        requests == IF data THEN <<>> ELSE << <<"GET", url, Timeout>> >>
        response == IF data THEN <<"none">> ELSE net
        bytes == IF data THEN DecodeDataUri(url) ELSE HttpGet(net)
        opened == IF bytes[1] = "raise" THEN bytes ELSE ImageOpen(bytes[2])
        i == ExifTranspose(opened[2])
        image == IF ~keep_alpha_channel THEN ConvertRGB(i) ELSE i
        counter == Cardinality(tempdir) + 1
        file == "TempImageFromUrl" \o "_" \o Pad5(counter) \o ".png"
        preview == [filename |-> file, subfolder |-> "", type |-> "temp"]
        mask == IF HasBand(i.mode, "A") THEN OneMinus(ToFloatArray(GetChannel(i, "A")))
                ELSE Zeros(MaskSide, MaskSide)
    IN  IF opened[1] = "raise"
        THEN /\ load' = [called |-> TRUE, args |-> <<url, keep_alpha_channel>>, requests |-> requests,
                         response |-> response, outcome |-> opened]
             /\ UNCHANGED <<heap, calls, mux, upload, tempdir>>
        ELSE /\ Cardinality(tempdir) < MaxTempFiles
             /\ tempdir' = tempdir \cup {file}
             /\ load' = [called |-> TRUE, args |-> <<url, keep_alpha_channel>>, requests |-> requests,
                         response |-> response,
                         outcome |-> Return([ui |-> [images |-> <<preview>>],
                                             result |-> <<AddBatchAxis(ToFloatArray(image)), mask>>])]
             /\ UNCHANGED <<heap, calls, mux, upload>>

\* the images a URL may hold: one row of 1..MaxWidth pixels, in every mode and
\* orientation; the alpha is the same level on every pixel, or steps through
\* the levels AlphaSteps from pixel to pixel
AlphaLevels == {0, 128, 255}

AlphaSteps == <<255, 0, 128>>

AlphaPatterns == {[x \in 0..(MaxWidth - 1) |-> a] : a \in AlphaLevels}
                 \cup {[x \in 0..(MaxWidth - 1) |-> AlphaSteps[(x % 3) + 1]]}

SourcePixel(mode, x, a) ==
    CASE mode = "RGB" -> <<40 + 100 * (x % 3), 45 + 100 * (x % 3), 50 + 100 * (x % 3)>>
      [] mode = "RGBA" -> <<40 + 100 * (x % 3), 45 + 100 * (x % 3), 50 + 100 * (x % 3), a>>
      [] mode = "L" -> <<40 + 100 * (x % 3)>>
      [] mode = "LA" -> <<40 + 100 * (x % 3), a>>
      [] mode = "P" -> <<x>>

SourceImages ==
    { [mode |-> m, w |-> w, h |-> 1, exif |-> o, px |-> [xy \in Pixels(w, 1) |-> SourcePixel(m, xy[1], al[xy[1]])]] :
        m \in {"RGBA", "LA"}, w \in 1..MaxWidth, o \in 1..8, al \in AlphaPatterns }
    \cup
    { [mode |-> m, w |-> w, h |-> 1, exif |-> o, px |-> [xy \in Pixels(w, 1) |-> SourcePixel(m, xy[1], 255)]] :
        m \in {"RGB", "L", "P"}, w \in 1..MaxWidth, o \in 1..8 }

Contents == {<<"png", i>> : i \in SourceImages} \cup {<<"junk">>}

DataUris ==
    { [head |-> "data:image/", parts |-> <<"png;base64", <<"b64", c>> >>] : c \in Contents }
    \cup { [head |-> "data:image/", parts |-> <<"png;base64", <<"text", "%">> >>],
           [head |-> "data:image/", parts |-> <<"png;base64">>] }

HttpUrls == { [head |-> "https://", parts |-> <<"host/cat.png">>] }

\* the body of an error page: nothing an image decoder reads, or a placeholder image
ErrorBodies == {<<"junk">>, <<"png", [mode |-> "RGB", w |-> 1, h |-> 1, exif |-> 1, px |-> [xy \in Pixels(1, 1) |-> <<0, 0, 0>>]]>>}

\* the bodies a server answers with: the upright images, or no image
Bodies == {<<"png", i>> : i \in {j \in SourceImages : j.exif = 1}} \cup {<<"junk">>}

Answers == {<<"response", 200, c>> : c \in Bodies}
           \cup {<<"response", st, c>> : st \in {204, 404, 500}, c \in ErrorBodies}
           \cup {<<"exception">>}

LoadFromDataUri == \E url \in DataUris, keep \in BOOLEAN : load_image_from_url(url, keep, <<"none">>)

LoadFromHttp == \E url \in HttpUrls, keep \in BOOLEAN, net \in Answers : load_image_from_url(url, keep, net)

NextLoad == LoadFromDataUri \/ LoadFromHttp

SpecLoad == Init /\ [][NextLoad]_vars

\* ------------------------------------------------------ claims on the loader
IsDataUri(url) == url.head = "data:image/"

Returned == load.called /\ load.outcome[1] = "return"

\* the image decoded from the input of the last call
LoadedSource == IF IsDataUri(load.args[1]) THEN load.args[1].parts[2][2][2] ELSE load.response[3][2]

HasAlphaChannel(i) == i.mode \in {"RGBA", "LA"}

\* the alpha band is the last band
AlphaOf(v) == v[Len(v)]

\* C9: an HTTP GET is made exactly when the input is not a data URI, and then
\* one; when it answers with a status that is not a success the call raises,
\* writes no preview file and returns nothing.
C9_FetchPath ==
    [][ load'.called =>
          /\ Len(load'.requests) = (IF IsDataUri(load'.args[1]) THEN 0 ELSE 1)
          /\ \A k \in 1..Len(load'.requests) : load'.requests[k][1] = "GET" /\ load'.requests[k][2] = load'.args[1]
          /\ (/\ Len(load'.requests) = 1
              /\ load'.response[1] = "response"
              /\ load'.response[2] \notin 200..299) =>
                 (load'.outcome[1] = "raise" /\ tempdir' = tempdir) ]_vars

\* a 404 answered with a placeholder image, after an earlier call wrote a preview
C9_Witness ==
    /\ load.called
    /\ ~IsDataUri(load.args[1])
    /\ Len(load.requests) = 1
    /\ load.response[1] = "response" /\ load.response[2] = 404 /\ load.response[3][1] = "png"
    /\ load.outcome = Raise("Exception")
    /\ tempdir = {"TempImageFromUrl_00001.png"}

\* C10: a source without an alpha channel gives the 64x64 all-zero mask
\* whatever its size; a source with one gives a mask of the returned image's
\* height and width whose samples are 1 minus the normalized alpha (all zero
\* for an opaque source, all one for a transparent one), with and without
\* keep_alpha_channel; without it the image has exactly 3 channels.
C10_MaskDerivation ==
    Returned =>
        LET src == LoadedSource
            image == load.outcome[2].result[1]
            mask == load.outcome[2].result[2]
            turned == ExifTranspose(src)
        IN  /\ ~HasAlphaChannel(src) =>
                 /\ mask.shape = <<64, 64>>
                 /\ DOMAIN mask.data = (0..63) \X (0..63)
                 /\ \A rc \in DOMAIN mask.data : mask.data[rc][1][1] = 0
            /\ HasAlphaChannel(src) =>
                 /\ mask.shape = <<image.shape[2], image.shape[3]>>
                 /\ DOMAIN mask.data = (0..(image.shape[2] - 1)) \X (0..(image.shape[3] - 1))
                 /\ \A rc \in DOMAIN mask.data :
                       /\ Len(mask.data[rc]) = 1
                       /\ mask.data[rc][1] = <<255 - AlphaOf(turned.px[<<rc[2], rc[1]>>]), 255>>
                       /\ load.args[2] => mask.data[rc][1][1] + AlphaOf(image.data[rc])[1] = 255
                 /\ (\A xy \in DOMAIN src.px : AlphaOf(src.px[xy]) = 255) =>
                       \A rc \in DOMAIN mask.data : mask.data[rc][1][1] = 0
                 /\ (\A xy \in DOMAIN src.px : AlphaOf(src.px[xy]) = 0) =>
                       \A rc \in DOMAIN mask.data : mask.data[rc][1][1] = mask.data[rc][1][2]
            /\ ~load.args[2] => Len(image.shape) = 4 /\ image.shape[4] = 3

\* a sideways RGBA source of two pixels, opaque then transparent, flattened to RGB
C10_Witness ==
    /\ Returned
    /\ ~load.args[2]
    /\ LoadedSource.mode = "RGBA" /\ LoadedSource.w = 2 /\ LoadedSource.h = 1 /\ LoadedSource.exif = 6
    /\ LoadedSource.px[<<0, 0>>][4] = 255 /\ LoadedSource.px[<<1, 0>>][4] = 0
    /\ load.outcome[2].result[1].shape = <<1, 2, 1, 3>>
    /\ load.outcome[2].result[2].shape = <<2, 1>>
    /\ load.outcome[2].result[2].data[<<0, 0>>] = << <<0, 255>> >>
    /\ load.outcome[2].result[2].data[<<1, 0>>] = << <<255, 255>> >>

====
